---- MODULE Spec2Model ----
(***************************************************************************)
(* Model of generate_poster.py: main() geocodes a place, fetches the road  *)
(* network and the optional water / park layers, and render_poster() draws *)
(* the layers in a fixed order, adds the labels and saves the figure.      *)
(*                                                                         *)
(* A road tag (edges['highway'] cell) is a record [kind, cats]:            *)
(*   kind = "str"   a single category string, cats = <<that string>>       *)
(*   kind = "list"  a Python list of category strings, cats = the list     *)
(*   kind = "other" any other value (NaN), cats = <<>>                     *)
(* A feature collection (water, parks) is None or a frame with len rows.   *)
(* Coordinates are integers in units of 1e-4 degree; widths in 1/10 pt.    *)
(***************************************************************************)
EXTENDS Integers, Sequences, FiniteSets, TLC

VARIABLES pc, show_labels, coords, G, water, parks, edges, i,
          fetched, calls, extent, saved, error, style_in, style_out

vars == <<pc, show_labels, coords, G, water, parks, edges, i,
          fetched, calls, extent, saved, error, style_in, style_out>>

\* ------------------------------------------------------------------ bounds
MaxEdges == 2
MaxPolys == 1
MaxTagLen == 2

\* ------------------------------------------------------------------ values
Str(s) == [kind |-> "str", cats |-> <<s>>]
Lst(q) == [kind |-> "list", cats |-> q]
NaN == [kind |-> "other", cats |-> <<>>]

None == [isNone |-> TRUE, len |-> 0]
Frame(n) == [isNone |-> FALSE, len |-> n]

THEME_roads ==
  [motorway |-> "#00d4ff", trunk |-> "#00c4ec", primary |-> "#00b4d8",
   secondary |-> "#0096c7", tertiary |-> "#0077b6", residential |-> "#023e8a",
   default |-> "#014f86"]

THEME_road_widths ==
  [motorway |-> 25, trunk |-> 20, primary |-> 15, secondary |-> 12,
   tertiary |-> 8, residential |-> 3, default |-> 2]

\* dict.get(key, dflt)
DictGet(d, key, dflt) == IF key \in DOMAIN d THEN d[key] ELSE dflt

\* ---------------------------------------------------------- get_road_style
FirstElementLast(highway_type) ==
  IF highway_type.kind = "list"
    THEN Str(highway_type.cats[Len(highway_type.cats)])
    ELSE highway_type

\* lines 39-40: a list is replaced by its element 0
FirstElement(highway_type) ==
  IF highway_type.kind = "list" THEN Str(highway_type.cats[1]) ELSE highway_type

IndexError == [err |-> "IndexError", color |-> "", width |-> 0]
Unset == [err |-> "unset", color |-> "", width |-> 0]

StyleOf(t) ==
  IF t.kind = "str"
    THEN [err |-> "none",
          color |-> DictGet(THEME_roads, t.cats[1], THEME_roads["default"]),
          width |-> DictGet(THEME_road_widths, t.cats[1], THEME_road_widths["default"])]
    ELSE [err |-> "none", color |-> THEME_roads["default"],
          width |-> THEME_road_widths["default"]]

get_road_style(highway_type) ==
  IF highway_type.kind = "list" /\ highway_type.cats = <<>>
    THEN IndexError
    ELSE StyleOf(FirstElement(highway_type))

\* ------------------------------------------------------------ render masks
road_order_motorway_first ==
  <<"motorway", "residential", "tertiary", "secondary", "primary", "trunk">>

road_order == <<"residential", "tertiary", "secondary", "primary", "trunk", "motorway">>

plotted_types == {road_order[k] : k \in 1..Len(road_order)}

Elems(q) == {q[k] : k \in 1..Len(q)}

\* lines 127-130
NamedMask(x, road_type) ==
  IF x.kind = "str" THEN x.cats[1] = road_type
  ELSE IF x.kind = "list" THEN road_type \in Elems(x.cats)
  ELSE FALSE

RemainingMaskStrInverted(x) ==
  IF x.kind = "str" THEN x.cats[1] \in plotted_types
  ELSE IF x.kind = "list" THEN ~(\E t \in Elems(x.cats) : t \in plotted_types)
  ELSE TRUE

\* lines 139-142
RemainingMask(x) ==
  IF x.kind = "str" THEN x.cats[1] \notin plotted_types
  ELSE IF x.kind = "list" THEN ~(\E t \in Elems(x.cats) : t \in plotted_types)
  ELSE TRUE

\* edges[mask]: the rows (by index) the mask selects
Subset(road_type) == {k \in 1..Len(edges) : NamedMask(edges[k], road_type)}
Remaining == {k \in 1..Len(edges) : RemainingMask(edges[k])}

\* ------------------------------------------------------------------ inputs
RenderTags ==
  {Str("residential"), Str("motorway"), Str("track"),
   Lst(<<"bridge", "motorway">>), Lst(<<"residential", "motorway">>),
   Lst(<<>>), NaN}

Scenario ==
  <<Str("residential"), Str("residential"), Str("primary"), Str("motorway"),
    Str("track")>>

EdgeInputs ==
  UNION {[1..n -> RenderTags] : n \in 0..MaxEdges} \cup {Scenario}

FrameInputs == {Frame(n) : n \in 0..MaxPolys}

\* (lat, lon) pairs: Sydney, New York, the origin, and a south-west point
CoordInputs == {<<-338688, 1512093>>, <<407128, -740060>>, <<0, 0>>, <<-1, -1>>}

StyleStrings ==
  {"motorway", "trunk", "primary", "secondary", "tertiary", "residential",
   "default", "track", "bridge"}

StyleTags ==
  {Str(s) : s \in StyleStrings}
    \cup {Lst(q) : q \in UNION {[1..n -> StyleStrings] : n \in 0..MaxTagLen}}
    \cup {NaN}

\* ------------------------------------------------------------- statement order
StageOrderLabelsEarly == <<"water", "parks", "roads", "labels", "remaining", "save">>

\* render_poster's blocks in program order (lines 106-210)
StageOrder == <<"water", "parks", "roads", "remaining", "labels", "save">>

StageIndex(s) == CHOOSE k \in 1..Len(StageOrder) : StageOrder[k] = s

NextStage(s) ==
  IF StageIndex(s) = Len(StageOrder) THEN "done" ELSE StageOrder[StageIndex(s) + 1]

AreaFailRaises(s) == "raised"

\* lines 111-112, 119-120: except Exception: pass
AreaFailPc(s) == NextStage(s)

RoadFailSwallowed(s) == NextStage(s)

\* lines 135, 145: no handler, the exception leaves render_poster and main
RoadFailPc(s) == "raised"

OptionalFetchFailRaises(s) == "raised"

\* lines 75-76, 86-87: except Exception: <layer> = None
OptionalFetchFailPc(s) == s

\* ------------------------------------------------------------------ labels
\* line 170
lat_dir(lat) == IF lat >= 0 THEN "N" ELSE "S"

lon_dir_symmetric(lon) == IF lon <= 0 THEN "W" ELSE "E"

\* line 171
lon_dir(lon) == IF lon < 0 THEN "W" ELSE "E"

Abs(n) == IF n < 0 THEN -n ELSE n

\* line 172: f"{abs(lat):.4f}°{lat_dir}  {abs(lon):.4f}°{lon_dir}"
coord_text(c) ==
  [lat_whole |-> Abs(c[1]) \div 10000, lat_frac |-> Abs(c[1]) % 10000,
   lat_dir |-> lat_dir(c[1]),
   lon_whole |-> Abs(c[2]) \div 10000, lon_frac |-> Abs(c[2]) % 10000,
   lon_dir |-> lon_dir(c[2])]

NoText == [lat_whole |-> 0, lat_frac |-> 0, lat_dir |-> "", lon_whole |-> 0,
           lon_frac |-> 0, lon_dir |-> ""]

\* ------------------------------------------------------------ backend calls
Call(op, layer, rows, ok, style, lim, text) ==
  [op |-> op, layer |-> layer, rows |-> rows, ok |-> ok, color |-> style.color,
   width |-> style.width, lim |-> lim, text |-> text]

Plot(layer, rows, ok, style) == Call("plot", layer, rows, ok, style, {}, NoText)

AreaStyle(layer) ==
  [err |-> "none", color |-> IF layer = "water" THEN "#1b4965" ELSE "#1e3a2f",
   width |-> 0]

DefaultStyle ==
  [err |-> "none", color |-> THEME_roads["default"],
   width |-> THEME_road_widths["default"]]

TextStyle == [err |-> "none", color |-> "#e0fbfc", width |-> 0]

\* ------------------------------------------------------------------- Init
Init ==
  /\ pc = "parse_args"
  /\ show_labels = TRUE
  /\ coords = <<0, 0>>
  /\ G = <<>>
  /\ water = None
  /\ parks = None
  /\ edges = <<>>
  /\ i = 1
  /\ fetched = <<>>
  /\ calls = <<>>
  /\ extent = {}
  /\ saved = FALSE
  /\ error = "none"
  /\ style_in = NaN
  /\ style_out = Unset

\* ------------------------------------------------------------------- main
\* lines 249-264: args.no_labels is the one argument the render branches on
ParseArgs ==
  /\ pc = "parse_args"
  /\ \E no_labels \in BOOLEAN : show_labels' = ~no_labels
  /\ pc' = "geocode"
  /\ UNCHANGED <<coords, G, water, parks, edges, i, fetched, calls, extent,
                 saved, error, style_in, style_out>>

\* lines 48-56, 267
GeocodeOk ==
  /\ pc = "geocode"
  /\ \E location \in CoordInputs : coords' = location
  /\ pc' = "fetch_roads"
  /\ UNCHANGED <<show_labels, G, water, parks, edges, i, fetched, calls,
                 extent, saved, error, style_in, style_out>>

GeocodeFail ==
  /\ pc = "geocode"
  /\ pc' = "raised"
  /\ error' = "ValueError: Could not find location"
  /\ UNCHANGED <<show_labels, coords, G, water, parks, edges, i, fetched,
                 calls, extent, saved, style_in, style_out>>

\* line 65
FetchRoadsOk ==
  /\ pc = "fetch_roads"
  /\ \E g \in EdgeInputs : G' = g
  /\ fetched' = Append(fetched, [what |-> "roads", ok |-> TRUE])
  /\ pc' = "fetch_water"
  /\ UNCHANGED <<show_labels, coords, water, parks, edges, i, calls, extent,
                 saved, error, style_in, style_out>>

FetchRoadsFail ==
  /\ pc = "fetch_roads"
  /\ fetched' = Append(fetched, [what |-> "roads", ok |-> FALSE])
  /\ pc' = "raised"
  /\ error' = "graph_from_point"
  /\ UNCHANGED <<show_labels, coords, G, water, parks, edges, i, calls,
                 extent, saved, style_in, style_out>>

\* lines 69-76
FetchWaterOk ==
  /\ pc = "fetch_water"
  /\ \E f \in FrameInputs : water' = f
  /\ fetched' = Append(fetched, [what |-> "water", ok |-> TRUE])
  /\ pc' = "fetch_parks"
  /\ UNCHANGED <<show_labels, coords, G, parks, edges, i, calls, extent,
                 saved, error, style_in, style_out>>

FetchWaterFail ==
  /\ pc = "fetch_water"
  /\ water' = None
  /\ fetched' = Append(fetched, [what |-> "water", ok |-> FALSE])
  /\ pc' = OptionalFetchFailPc("fetch_parks")
  /\ error' = IF pc' = "raised" THEN "features_from_point" ELSE error
  /\ UNCHANGED <<show_labels, coords, G, parks, edges, i, calls, extent,
                 saved, style_in, style_out>>

\* lines 80-89
FetchParksOk ==
  /\ pc = "fetch_parks"
  /\ \E f \in FrameInputs : parks' = f
  /\ fetched' = Append(fetched, [what |-> "parks", ok |-> TRUE])
  /\ pc' = "render"
  /\ UNCHANGED <<show_labels, coords, G, water, edges, i, calls, extent,
                 saved, error, style_in, style_out>>

FetchParksFail ==
  /\ pc = "fetch_parks"
  /\ parks' = None
  /\ fetched' = Append(fetched, [what |-> "parks", ok |-> FALSE])
  /\ pc' = OptionalFetchFailPc("render")
  /\ error' = IF pc' = "raised" THEN "features_from_point" ELSE error
  /\ UNCHANGED <<show_labels, coords, G, water, edges, i, calls, extent,
                 saved, style_in, style_out>>

\* ---------------------------------------------------------- render_poster
\* lines 94-104
RenderStart ==
  /\ pc = "render"
  /\ edges' = G
  /\ pc' = StageOrder[1]
  /\ UNCHANGED <<show_labels, coords, G, water, parks, i, fetched, calls,
                 extent, saved, error, style_in, style_out>>

AreaOf(layer) == IF layer = "water" THEN water ELSE parks

\* lines 107, 115
AreaPresent(layer) == ~AreaOf(layer).isNone /\ AreaOf(layer).len > 0

\* lines 107-120: one optional area layer
DrawAreaOk(layer) ==
  /\ pc = layer
  /\ AreaPresent(layer)
  /\ calls' = Append(calls, Plot(layer, 1..AreaOf(layer).len, TRUE, AreaStyle(layer)))
  /\ extent' = extent \cup {layer}
  /\ pc' = NextStage(layer)
  /\ UNCHANGED <<show_labels, coords, G, water, parks, edges, i, fetched,
                 saved, error, style_in, style_out>>

DrawAreaFail(layer) ==
  /\ pc = layer
  /\ AreaPresent(layer)
  /\ calls' = Append(calls, Plot(layer, 1..AreaOf(layer).len, FALSE, AreaStyle(layer)))
  /\ pc' = AreaFailPc(layer)
  /\ error' = IF pc' = "raised" THEN "plot" ELSE error
  /\ UNCHANGED <<show_labels, coords, G, water, parks, edges, i, fetched,
                 extent, saved, style_in, style_out>>

SkipArea(layer) ==
  /\ pc = layer
  /\ ~AreaPresent(layer)
  /\ pc' = NextStage(layer)
  /\ UNCHANGED <<show_labels, coords, G, water, parks, edges, i, fetched,
                 calls, extent, saved, error, style_in, style_out>>

\* after one iteration of the for loop at line 126
LoopPc == IF i = Len(road_order) THEN NextStage("roads") ELSE "roads"

\* lines 126-135: one iteration, subset non-empty, plot succeeds
DrawRoadsOk ==
  /\ pc = "roads"
  /\ Subset(road_order[i]) # {}
  /\ calls' = Append(calls, Plot(road_order[i], Subset(road_order[i]), TRUE,
                                 get_road_style(Str(road_order[i]))))
  /\ extent' = extent \cup {road_order[i]}
  /\ i' = IF i = Len(road_order) THEN i ELSE i + 1
  /\ pc' = LoopPc
  /\ UNCHANGED <<show_labels, coords, G, water, parks, edges, fetched, saved,
                 error, style_in, style_out>>

DrawRoadsFail ==
  /\ pc = "roads"
  /\ Subset(road_order[i]) # {}
  /\ calls' = Append(calls, Plot(road_order[i], Subset(road_order[i]), FALSE,
                                 get_road_style(Str(road_order[i]))))
  /\ pc' = IF RoadFailPc("roads") = "raised" THEN "raised" ELSE LoopPc
  /\ i' = IF pc' = "raised" \/ i = Len(road_order) THEN i ELSE i + 1
  /\ error' = IF pc' = "raised" THEN "plot" ELSE error
  /\ UNCHANGED <<show_labels, coords, G, water, parks, edges, fetched, extent,
                 saved, style_in, style_out>>

SkipRoads ==
  /\ pc = "roads"
  /\ Subset(road_order[i]) = {}
  /\ i' = IF i = Len(road_order) THEN i ELSE i + 1
  /\ pc' = LoopPc
  /\ UNCHANGED <<show_labels, coords, G, water, parks, edges, fetched, calls,
                 extent, saved, error, style_in, style_out>>

\* lines 138-146
DrawRemainingOk ==
  /\ pc = "remaining"
  /\ Remaining # {}
  /\ calls' = Append(calls, Plot("remaining", Remaining, TRUE, DefaultStyle))
  /\ extent' = extent \cup {"remaining"}
  /\ pc' = NextStage("remaining")
  /\ UNCHANGED <<show_labels, coords, G, water, parks, edges, i, fetched,
                 saved, error, style_in, style_out>>

DrawRemainingFail ==
  /\ pc = "remaining"
  /\ Remaining # {}
  /\ calls' = Append(calls, Plot("remaining", Remaining, FALSE, DefaultStyle))
  /\ pc' = IF RoadFailPc("remaining") = "raised" THEN "raised"
           ELSE NextStage("remaining")
  /\ error' = IF pc' = "raised" THEN "plot" ELSE error
  /\ UNCHANGED <<show_labels, coords, G, water, parks, edges, i, fetched,
                 extent, saved, style_in, style_out>>

SkipRemaining ==
  /\ pc = "remaining"
  /\ Remaining = {}
  /\ pc' = NextStage("remaining")
  /\ UNCHANGED <<show_labels, coords, G, water, parks, edges, i, fetched,
                 calls, extent, saved, error, style_in, style_out>>

\* lines 153-196: get_xlim/get_ylim, then the three ax.text calls
LabelCalls ==
  <<Call("get_lim", "", {}, TRUE, TextStyle, extent, NoText),
    Call("text", "city", {}, TRUE, TextStyle, extent, NoText),
    Call("text", "coords", {}, TRUE, TextStyle, extent, coord_text(coords)),
    Call("text", "region", {}, TRUE, TextStyle, extent, NoText)>>

\* lines 149-196
AddLabels ==
  /\ pc = "labels"
  /\ show_labels
  /\ calls' = calls \o LabelCalls
  /\ pc' = NextStage("labels")
  /\ UNCHANGED <<show_labels, coords, G, water, parks, edges, i, fetched,
                 extent, saved, error, style_in, style_out>>

SkipLabels ==
  /\ pc = "labels"
  /\ ~show_labels
  /\ pc' = NextStage("labels")
  /\ UNCHANGED <<show_labels, coords, G, water, parks, edges, i, fetched,
                 calls, extent, saved, error, style_in, style_out>>

\* lines 199-213
Save ==
  /\ pc = "save"
  /\ calls' = Append(calls, Call("savefig", "", {}, TRUE, TextStyle, extent, NoText))
  /\ saved' = TRUE
  /\ pc' = NextStage("save")
  /\ UNCHANGED <<show_labels, coords, G, water, parks, edges, i, fetched,
                 extent, error, style_in, style_out>>

Next ==
  \/ ParseArgs
  \/ GeocodeOk
  \/ GeocodeFail
  \/ FetchRoadsOk
  \/ FetchRoadsFail
  \/ FetchWaterOk
  \/ FetchWaterFail
  \/ FetchParksOk
  \/ FetchParksFail
  \/ RenderStart
  \/ DrawAreaOk("water")
  \/ DrawAreaFail("water")
  \/ SkipArea("water")
  \/ DrawAreaOk("parks")
  \/ DrawAreaFail("parks")
  \/ SkipArea("parks")
  \/ DrawRoadsOk
  \/ DrawRoadsFail
  \/ SkipRoads
  \/ DrawRemainingOk
  \/ DrawRemainingFail
  \/ SkipRemaining
  \/ AddLabels
  \/ SkipLabels
  \/ Save

Spec == Init /\ [][Next]_vars

\* ------------------------------------------- get_road_style on its own inputs
InitStyle ==
  /\ pc = "style_call"
  /\ show_labels = TRUE
  /\ coords = <<0, 0>>
  /\ G = <<>>
  /\ water = None
  /\ parks = None
  /\ edges = <<>>
  /\ i = 1
  /\ fetched = <<>>
  /\ calls = <<>>
  /\ extent = {}
  /\ saved = FALSE
  /\ error = "none"
  /\ style_in \in StyleTags
  /\ style_out = Unset

StyleCall ==
  /\ pc = "style_call"
  /\ style_out' = get_road_style(style_in)
  /\ pc' = "style_done"
  /\ UNCHANGED <<show_labels, coords, G, water, parks, edges, i, fetched,
                 calls, extent, saved, error, style_in>>

NextStyle == StyleCall

SpecStyle == InitStyle /\ [][NextStyle]_vars

\* ================================================================ claims
SixCategories ==
  {"residential", "tertiary", "secondary", "primary", "trunk", "motorway"}

RoadLayers == SixCategories \cup {"remaining"}

PlotIdx == {j \in 1..Len(calls) : calls[j].op = "plot"}
RoadIdx == {j \in PlotIdx : calls[j].layer \in RoadLayers}
TextIdx == {j \in 1..Len(calls) : calls[j].op = "text"}

\* the road layers feature k was drawn in, and how many road draws hold it
LayersOf(k) == {calls[j].layer : j \in {n \in RoadIdx : k \in calls[n].rows}}
DrawCount(k) == Cardinality({j \in RoadIdx : k \in calls[j].rows})

RoadsFinished == pc \in {"labels", "save", "done"}
Terminated == pc \in {"done", "raised"}

FailedIdx == {j \in PlotIdx : ~calls[j].ok}

\* C1: once all road draws are issued, every road feature has been drawn in
\* exactly one of the seven buckets (the buckets are disjoint and cover the
\* input, so the bucket sizes sum to the number of features).
C1_DrawnExactlyOnce ==
  RoadsFinished =>
    /\ \A k \in 1..Len(edges) : DrawCount(k) = 1
    /\ \A a, b \in RoadIdx : a # b => calls[a].rows \cap calls[b].rows = {}
    /\ UNION {calls[j].rows : j \in RoadIdx} = 1..Len(edges)

LayerRank(layer) ==
  CASE layer = "water" -> 1
    [] layer = "parks" -> 2
    [] layer = "residential" -> 3
    [] layer = "tertiary" -> 4
    [] layer = "secondary" -> 5
    [] layer = "primary" -> 6
    [] layer = "trunk" -> 7
    [] layer = "motorway" -> 8
    [] layer = "remaining" -> 9

FirstElementBucket(tag) ==
  IF tag.kind = "other" \/ tag.cats = <<>> THEN "remaining"
  ELSE IF tag.cats[1] \in SixCategories THEN tag.cats[1] ELSE "remaining"

\* C3: the bucket a feature is drawn in is the one its tag resolves to with
\* first-element precedence: element 0 of a list tag when canonical, the
\* remainder otherwise, whatever the later elements are.
C3_FirstElementBucket ==
  RoadsFinished =>
    \A k \in 1..Len(edges) : LayersOf(k) = {FirstElementBucket(edges[k])}

RegisteredPair(s) ==
  [err |-> "none",
   color |-> IF s \in DOMAIN THEME_roads THEN THEME_roads[s]
             ELSE THEME_roads["default"],
   width |-> IF s \in DOMAIN THEME_road_widths THEN THEME_road_widths[s]
             ELSE THEME_road_widths["default"]]

\* C4: get_road_style returns the registered (color, width) pair of a
\* registered string, the default pair of an unregistered string, and for a
\* non-empty list the result for element 0; it never fails on a string.
C4_StyleTotal ==
  pc = "style_done" =>
    /\ style_in.kind = "str" => style_out = RegisteredPair(style_in.cats[1])
    /\ (style_in.kind = "str" /\ style_in.cats[1] \notin DOMAIN THEME_roads) =>
         (style_out.color = "#014f86" /\ style_out.width = 2)
    /\ (style_in.kind = "list" /\ style_in.cats # <<>>) =>
         style_out = RegisteredPair(style_in.cats[1])

C4_Witness ==
  /\ pc = "style_done"
  /\ style_in = Lst(<<"motorway", "bridge">>)
  /\ style_out.color = "#00d4ff"
  /\ style_out.width = 25

PastWater == pc \in {"parks", "roads", "remaining", "labels", "save", "done"}
PastParks == pc \in {"roads", "remaining", "labels", "save", "done"}

Attempts(layer) == {j \in PlotIdx : calls[j].layer = layer}

AllRoadsDrawn ==
  /\ \A r \in SixCategories :
       Subset(r) # {} =>
         \E j \in RoadIdx : calls[j].layer = r /\ calls[j].ok
  /\ Remaining # {} =>
       \E j \in RoadIdx : calls[j].layer = "remaining" /\ calls[j].ok

LabelsAsRequested ==
  Cardinality(TextIdx) = IF show_labels THEN 3 ELSE 0

\* C5: a draw is attempted for the water (park) layer iff its collection is
\* not None and non-empty; a failed attempt never ends the render: the run
\* goes on through the other area layer, the road draws, the labels and the
\* save.
C5_AreaLayers ==
  /\ PastWater =>
       (Cardinality(Attempts("water")) = IF ~water.isNone /\ water.len > 0 THEN 1 ELSE 0)
  /\ PastParks =>
       (Cardinality(Attempts("parks")) = IF ~parks.isNone /\ parks.len > 0 THEN 1 ELSE 0)
  /\ (pc = "raised" /\ calls # <<>>) =>
       calls[Len(calls)].layer \notin {"water", "parks"}
  /\ \A j \in FailedIdx :
       calls[j].layer = "water" =>
         /\ pc # "water"
         /\ PastParks =>
              (Cardinality(Attempts("parks")) = IF ~parks.isNone /\ parks.len > 0 THEN 1 ELSE 0)
  /\ pc = "done" => (saved /\ AllRoadsDrawn /\ LabelsAsRequested)

C5_Witness ==
  /\ pc = "done"
  /\ saved
  /\ \E a, b, c \in PlotIdx :
       /\ calls[a].layer = "water" /\ ~calls[a].ok
       /\ calls[b].layer = "parks" /\ calls[b].ok
       /\ calls[c].layer = "motorway" /\ calls[c].ok

FetchFailed(what) ==
  \E j \in 1..Len(fetched) : fetched[j].what = what /\ ~fetched[j].ok

FetchTried(what) == \E j \in 1..Len(fetched) : fetched[j].what = what

\* C7: main ends before any render exactly when geocoding failed (ValueError,
\* no fetch attempted) or the road fetch failed (no water / park fetch); a
\* failed water or park fetch leaves that layer None and never ends the run:
\* the next fetch is attempted, the render is entered, and the run ends with
\* the output saved unless a road draw itself fails.
C7_FatalAndDegraded ==
  /\ error \in {"none", "ValueError: Could not find location",
                "graph_from_point", "plot"}
  /\ error = "ValueError: Could not find location" =>
       (pc = "raised" /\ fetched = <<>> /\ calls = <<>> /\ ~saved)
  /\ error = "graph_from_point" =>
       /\ pc = "raised" /\ calls = <<>> /\ ~saved
       /\ ~FetchTried("water") /\ ~FetchTried("parks")
  /\ (pc = "raised" /\ calls = <<>> /\ edges = <<>> /\ error # "plot") <=>
       (\/ error = "ValueError: Could not find location"
        \/ error = "graph_from_point")
  /\ FetchFailed("water") =>
       /\ water = None
       /\ pc # "fetch_water"
       /\ pc # "fetch_parks" => FetchTried("parks")
  /\ FetchFailed("parks") => (parks = None /\ pc # "fetch_parks")
  /\ (Terminated /\ (FetchFailed("water") \/ FetchFailed("parks"))) =>
       (\/ pc = "done" /\ saved
        \/ error = "plot")

C7_Witness ==
  /\ pc = "done"
  /\ saved
  /\ FetchFailed("water")
  /\ FetchFailed("parks")
  /\ RoadIdx # {}

NamedDraws == {j \in RoadIdx : calls[j].layer \in SixCategories}
RemainderDraws == {j \in RoadIdx : calls[j].layer = "remaining"}

ScenarioDone ==
  /\ pc = "done"
  /\ edges = Scenario
  /\ water = None
  /\ parks = Frame(1)

\* C8 as stated: the scenario issues 4 classified-bucket draws.
C8_FourBucketDraws ==
  ScenarioDone =>
    /\ Attempts("water") = {}
    /\ Cardinality(Attempts("parks")) = 1
    /\ Cardinality(NamedDraws) = 4
    /\ Cardinality(RemainderDraws) = 1
    /\ \A k \in 1..Len(edges) : DrawCount(k) = 1

\* C8 amended: in the scenario (2 residential, 1 primary, 1 motorway, 1
\* track; water None; parks with 1 polygon) a completed render issues no
\* water draw, one park draw, 3 classified-bucket draws (residential,
\* primary, motorway, holding the 4 classified features) and 1 remainder
\* draw (the track feature), and each of the 5 features is drawn once.
C8_Amended ==
  ScenarioDone =>
    /\ Attempts("water") = {}
    /\ Cardinality(Attempts("parks")) = 1
    /\ {calls[j].layer : j \in NamedDraws} = {"residential", "primary", "motorway"}
    /\ Cardinality(NamedDraws) = 3
    /\ Cardinality(UNION {calls[j].rows : j \in NamedDraws}) = 4
    /\ Cardinality(RemainderDraws) = 1
    /\ \A j \in RemainderDraws : calls[j].rows = {5}
    /\ \A k \in 1..Len(edges) : DrawCount(k) = 1

C8_Witness ==
  /\ ScenarioDone
  /\ saved
  /\ Cardinality(RoadIdx) = 4

LimIdx == {j \in 1..Len(calls) : calls[j].op = "get_lim"}
SaveIdx == {j \in 1..Len(calls) : calls[j].op = "savefig"}

\* C9: once the label block is passed, exactly the three labels city,
\* coords, region have been emitted when labels are enabled and none
\* otherwise; the plot bounds are read after every geometry draw and before
\* the save, and they are the final extent.
C9_Labels ==
  /\ pc \in {"save", "done"} =>
       /\ show_labels =>
            /\ Cardinality(TextIdx) = 3
            /\ {calls[j].layer : j \in TextIdx} = {"city", "coords", "region"}
            /\ Cardinality(LimIdx) = 1
       /\ ~show_labels => (TextIdx = {} /\ LimIdx = {})
  /\ Cardinality(TextIdx) \in {0, 3}
  /\ \A j \in LimIdx \cup TextIdx :
       /\ \A k \in PlotIdx : k < j
       /\ \A k \in SaveIdx : j < k
       /\ calls[j].lim = extent

C9_Witness ==
  /\ pc = "done"
  /\ show_labels
  /\ Cardinality(TextIdx) = 3
  /\ \E j \in PlotIdx : calls[j].layer = "remaining" /\ calls[j].ok
  /\ \E j \in PlotIdx : calls[j].layer = "water" /\ calls[j].ok

\* C10: in the coordinate label the latitude letter is N when latitude >= 0
\* and S otherwise, the longitude letter is W when longitude < 0 and E
\* otherwise, and the magnitudes are the absolute values.
C10_Hemisphere ==
  \A j \in TextIdx :
    calls[j].layer = "coords" =>
      /\ calls[j].text.lat_dir = (IF coords[1] >= 0 THEN "N" ELSE "S")
      /\ calls[j].text.lon_dir = (IF coords[2] < 0 THEN "W" ELSE "E")
      /\ calls[j].text.lat_whole * 10000 + calls[j].text.lat_frac
           = (IF coords[1] < 0 THEN 0 - coords[1] ELSE coords[1])
      /\ calls[j].text.lon_whole * 10000 + calls[j].text.lon_frac
           = (IF coords[2] < 0 THEN 0 - coords[2] ELSE coords[2])
      /\ calls[j].text.lat_frac \in 0..9999
      /\ calls[j].text.lon_frac \in 0..9999

C10_Witness ==
  /\ coords = <<0, 0>>
  /\ \E j \in TextIdx :
       /\ calls[j].layer = "coords"
       /\ calls[j].text.lat_dir = "N"
       /\ calls[j].text.lon_dir = "E"

====
